---- MODULE Spec2Model ----
(***************************************************************************)
(* Model of litex_boards/targets/xilinx_alveo_u280.py: the clock/reset     *)
(* generator _CRG and the composition performed by BaseSoC.__init__.       *)
(*                                                                         *)
(* One composition pass is a straight-line program; pc is the position in  *)
(* it and every statement group of the source is one action.  Addresses    *)
(* and frequencies are the source's integers (bytes, Hz).  Python integers *)
(* are unbounded; TLC's integers are 32 bit, so an end address             *)
(* origin+size (0x80000000 for hbm3) is never formed: intervals are        *)
(* compared by differences of origins.                                     *)
(***************************************************************************)
EXTENDS Integers, FiniteSets, Sequences, TLC

VARIABLES
    cfg,            \* arguments of BaseSoC.__init__ (the feature configuration)
    pc,             \* position in BaseSoC.__init__ / _CRG.__init__
    i,              \* loop variable of "for i in range(4)"
    rst,            \* _CRG.rst, the reset request (drives pll.reset)
    clock_domains,  \* _CRG.clock_domains: set of [name, reset_less]
    clkin,          \* pll.register_clkin
    clkouts,        \* pll.create_clkout calls: set of [cd, freq, buf, with_reset]
    false_paths,    \* platform.add_false_path_constraints
    specials,       \* _CRG.specials: clock buffer instances
    idelayctrl,     \* USIDELAYCTRL(cd_ref, cd_sys)
    hbm,            \* TRUE once the HBM core is a submodule
    bridges,        \* AXILite2AXI submodules: set of [channel, data_width, address_width]
    slaves,         \* names bound on self.bus
    regions,        \* regions registered on self.bus by this target: set of [name, origin, size]
    pcie_phy,       \* USPPCIEPHY parameters and add_pcie
    leds,           \* LedChaser parameters
    prev,           \* the composition built before this one (BaseSoC constructed twice)
    resetsync,      \* per clock domain with a reset synchronizer: its flip-flop stages
    edges,          \* per such domain: clock edges seen since the request was released
    assert_from     \* per such domain: its reset state when the request was last asserted

vars == << cfg, pc, i, rst, clock_domains, clkin, clkouts, false_paths, specials,
           idelayctrl, hbm, bridges, slaves, regions, pcie_phy, leds, prev,
           resetsync, edges, assert_from >>

hwvars == << resetsync, edges, assert_from >>

socvars == << clock_domains, clkin, clkouts, false_paths, specials, idelayctrl,
              hbm, bridges, slaves, regions, pcie_phy, leds >>

-----------------------------------------------------------------------------
(* Bounds of the model: the inputs enumerated.                             *)

\* sys_clk_freq ranges over the default and MaxFreqSteps further values
MaxFreqSteps == 1
\* distance in Hz between two enumerated values of sys_clk_freq
FreqStep == 1000000
\* ddram_channel ranges over 0..MaxDdramChannel
MaxDdramChannel == 1
\* the edge counter of a synchronized domain saturates here
MaxEdges == 3

-----------------------------------------------------------------------------
(* Program constants.                                                      *)

\* sys_clk_freq=int(150e6)
DefaultSysClkFreq == 150000000
\* pll.register_clkin(..., 100e6)
ClkinFreq == 100000000
\* pll.create_clkout(self.cd_pll4x, sys_clk_freq*4, ...)
Pll4xMul == 4
\* pll.create_clkout(self.cd_idelay, 600e6, with_reset=False)
IdelayFreq == 600000000
\* pll.create_clkout(self.cd_hbm_ref, 100e6)
HbmRefFreq == 100000000
\* pll.create_clkout(self.cd_apb, 100e6)
ApbFreq == 100000000
\* for i in range(4)
NumHbmChannels == 4
\* flip-flop stages of a reset synchronizer ("at least two flip-flop stages")
SyncStages == 2
\* origin=0x4000_0000 + ...
HbmBase == 1073741824
\* ... + 0x1000_0000*i
HbmStride == 268435456
\* size=0x1000_0000
HbmSize == 268435456
\* self.add_ram("firmware_ram", 0x20000000, 0x8000)
FirmwareRamOrigin == 536870912
FirmwareRamSize == 32768

SysClkFreqs == { DefaultSysClkFreq + FreqStep * k : k \in 0..MaxFreqSteps }

Configs == [ sys_clk_freq : SysClkFreqs, ddram_channel : 0..MaxDdramChannel,
             with_pcie : BOOLEAN, with_led : BOOLEAN, with_hbm : BOOLEAN ]

-----------------------------------------------------------------------------
(* _CRG.__init__                                                           *)

ClockDomain(name, reset_less) == [name |-> name, reset_less |-> reset_less]

\* lines 38-43
CRGClockDomains ==
    { ClockDomain("cd_sys", FALSE),
      ClockDomain("cd_sys4x", TRUE),
      ClockDomain("cd_pll4x", TRUE),
      ClockDomain("cd_idelay", FALSE),
      ClockDomain("cd_hbm_ref", FALSE),
      ClockDomain("cd_apb", FALSE) }

\* create_clkout(cd, freq, buf="bufg", with_reset=True)
create_clkout(cd, freq, buf, with_reset) ==
    [cd |-> cd, freq |-> freq, buf |-> buf, with_reset |-> with_reset]

\* lines 50-53
CRGClkouts(sys_clk_freq) ==
    { create_clkout("cd_pll4x", sys_clk_freq * Pll4xMul, "none", FALSE),
      create_clkout("cd_idelay", IdelayFreq, "bufg", FALSE),
      create_clkout("cd_hbm_ref", HbmRefFreq, "bufg", TRUE),
      create_clkout("cd_apb", ApbFreq, "bufg", TRUE) }

\* variant of main_bufgce_div: BUFGCE_DIVIDE=2
main_bufgce_div_halved ==
    [name |-> "main_bufgce_div", divide |-> 2, I |-> "cd_pll4x", O |-> "cd_sys"]

\* lines 58-60
main_bufgce_div ==
    [name |-> "main_bufgce_div", divide |-> 4, I |-> "cd_pll4x", O |-> "cd_sys"]

\* lines 61-62
main_bufgce ==
    [name |-> "main_bufgce", divide |-> 1, I |-> "cd_pll4x", O |-> "cd_sys4x"]

NoClkin == [pin |-> "", index |-> 0, freq |-> 0]
NoIdelayCtrl == [cd_ref |-> "", cd_sys |-> ""]
NoPcie == [data_width |-> 0, bar0_size |-> 0, ndmas |-> 0]
NoLeds == [pads |-> "", sys_clk_freq |-> 0]

-----------------------------------------------------------------------------
(* BaseSoC.__init__: the bus regions                                       *)

SoCRegion(origin, size) == [origin |-> origin, size |-> size]

\* f"hbm{i}"
HbmName(n) ==
    CASE n = 0 -> "hbm0"
      [] n = 1 -> "hbm1"
      [] n = 2 -> "hbm2"
      [] n = 3 -> "hbm3"
      [] OTHER -> "hbm"

HbmNames == { HbmName(n) : n \in 0..(NumHbmChannels - 1) }

\* variant of HbmOrigin: channel stride 0x0800_0000
HbmOriginHalfStride(n) == HbmBase + (HbmStride \div 2) * n

\* variant of HbmOrigin: channels packed behind whatever PCIe takes
HbmOriginPacked(n) == HbmBase + HbmStride * n + (IF cfg.with_pcie THEN FirmwareRamSize ELSE 0)

\* variant of HbmOrigin: the base 0x4000_0000 left out
HbmOriginFromZero(n) == HbmStride * n

\* origin=0x4000_0000 + 0x1000_0000*i
HbmOrigin(n) == HbmBase + HbmStride * n

\* SoCRegion(origin=0x4000_0000 + 0x1000_0000*i, size=0x1000_0000)
HbmRegion(n) == SoCRegion(HbmOrigin(n), HbmSize)

\* variant of FirmwareRamRegion: size 0xC000
FirmwareRamRegionOdd == SoCRegion(FirmwareRamOrigin, FirmwareRamSize + FirmwareRamSize \div 2)

\* self.add_ram("firmware_ram", 0x20000000, 0x8000)
FirmwareRamRegion == SoCRegion(FirmwareRamOrigin, FirmwareRamSize)

\* the entry self.bus.add_slave / self.add_ram leaves in the bus's region table
Registered(name, region) ==
    [name |-> name, origin |-> region.origin, size |-> region.size]

DefaultCfg == [ sys_clk_freq |-> DefaultSysClkFreq, ddram_channel |-> 0,
                with_pcie |-> FALSE, with_led |-> FALSE, with_hbm |-> FALSE ]

NoSoC == [built |-> FALSE, cfg |-> DefaultCfg, regions |-> {}]

-----------------------------------------------------------------------------
(* The state at entry of BaseSoC.__init__ with arguments c.                *)

Start(c) ==
    /\ cfg = c
    /\ pc = "SoCCore"
    /\ i = 0
    /\ rst = FALSE
    /\ clock_domains = {}
    /\ clkin = NoClkin
    /\ clkouts = {}
    /\ false_paths = {}
    /\ specials = {}
    /\ idelayctrl = NoIdelayCtrl
    /\ hbm = FALSE
    /\ bridges = {}
    /\ slaves = {}
    /\ regions = {}
    /\ pcie_phy = NoPcie
    /\ leds = NoLeds
    /\ resetsync = [d \in {} |-> << >>]
    /\ edges = [d \in {} |-> 0]
    /\ assert_from = [d \in {} |-> "none"]

Init ==
    /\ \E c \in Configs : Start(c)
    /\ prev = NoSoC

\* SoCCore.__init__(self, platform, sys_clk_freq, ident=..., **kwargs)
SoCCoreInit ==
    /\ pc = "SoCCore"
    /\ pc' = "crg_domains"
    /\ UNCHANGED << cfg, i, rst, socvars, prev, hwvars >>

\* _CRG.__init__: self.rst = Signal() and the six clock domains
CRG_ClockDomains ==
    /\ pc = "crg_domains"
    /\ rst' = FALSE
    /\ clock_domains' = CRGClockDomains
    /\ pc' = "crg_pll"
    /\ UNCHANGED << cfg, i, clkin, clkouts, false_paths, specials, idelayctrl,
                    hbm, bridges, slaves, regions, pcie_phy, leds, prev,
                    hwvars >>

\* the preset state of a synchronizer's flip-flop stages: reset asserted
Preset == [k \in 1..SyncStages |-> TRUE]

\* the clock domains whose create_clkout asks for a reset (with_reset=True)
WithReset(outs) == { o.cd : o \in { x \in outs : x.with_reset } }

\* _CRG.__init__: the PLL, its input and its four outputs
CRG_PLL ==
    /\ pc = "crg_pll"
    /\ clkin' = [pin |-> "sysclk", index |-> cfg.ddram_channel, freq |-> ClkinFreq]
    /\ clkouts' = CRGClkouts(cfg.sys_clk_freq)
    /\ resetsync' = [d \in WithReset(clkouts') |-> Preset]
    /\ edges' = [d \in WithReset(clkouts') |-> 0]
    /\ assert_from' = [d \in WithReset(clkouts') |-> "none"]
    /\ pc' = "crg_false_paths"
    /\ UNCHANGED << cfg, i, rst, clock_domains, false_paths, specials, idelayctrl,
                    hbm, bridges, slaves, regions, pcie_phy, leds, prev >>

\* platform.add_false_path_constraints, twice
CRG_FalsePaths ==
    /\ pc = "crg_false_paths"
    /\ false_paths' = { <<"cd_sys", "pll_clkin">>, <<"cd_sys", "cd_apb">> }
    /\ pc' = "crg_buffers"
    /\ UNCHANGED << cfg, i, rst, clock_domains, clkin, clkouts, specials, idelayctrl,
                    hbm, bridges, slaves, regions, pcie_phy, leds, prev,
                    hwvars >>

\* self.specials += [BUFGCE_DIV, BUFGCE]
CRG_Buffers ==
    /\ pc = "crg_buffers"
    /\ specials' = { main_bufgce_div, main_bufgce }
    /\ pc' = "crg_idelayctrl"
    /\ UNCHANGED << cfg, i, rst, clock_domains, clkin, clkouts, false_paths,
                    idelayctrl, hbm, bridges, slaves, regions, pcie_phy, leds, prev,
                    hwvars >>

\* self.submodules.idelayctrl = USIDELAYCTRL(cd_ref=self.cd_idelay, cd_sys=self.cd_sys)
CRG_IdelayCtrl ==
    /\ pc = "crg_idelayctrl"
    /\ idelayctrl' = [cd_ref |-> "cd_idelay", cd_sys |-> "cd_sys"]
    /\ pc' = "hbm"
    /\ UNCHANGED << cfg, i, rst, clock_domains, clkin, clkouts, false_paths,
                    specials, hbm, bridges, slaves, regions, pcie_phy, leds, prev,
                    hwvars >>

\* if with_hbm: self.submodules.hbm = ...
HBM_Core ==
    /\ pc = "hbm"
    /\ IF cfg.with_hbm
          THEN hbm' = TRUE /\ pc' = "hbm_channel"
          ELSE hbm' = FALSE /\ pc' = "firmware_ram"
    /\ i' = 0
    /\ UNCHANGED << cfg, rst, clock_domains, clkin, clkouts, false_paths, specials,
                    idelayctrl, bridges, slaves, regions, pcie_phy, leds, prev,
                    hwvars >>

\* one iteration of "for i in range(4)": the bridge and the bus slave of channel i
HBM_Channel ==
    /\ pc = "hbm_channel"
    /\ i < NumHbmChannels
    /\ bridges' = bridges \cup { [channel |-> i, data_width |-> 256, address_width |-> 33] }
    /\ slaves' = slaves \cup { HbmName(i) }
    /\ regions' = regions \cup { Registered(HbmName(i), HbmRegion(i)) }
    /\ i' = i + 1
    /\ pc' = IF i + 1 < NumHbmChannels THEN "hbm_channel" ELSE "firmware_ram"
    /\ UNCHANGED << cfg, rst, clock_domains, clkin, clkouts, false_paths, specials,
                    idelayctrl, hbm, pcie_phy, leds, prev, hwvars >>

\* self.add_ram("firmware_ram", 0x20000000, 0x8000)
FirmwareRam ==
    /\ pc = "firmware_ram"
    /\ slaves' = slaves \cup { "firmware_ram" }
    /\ regions' = regions \cup { Registered("firmware_ram", FirmwareRamRegion) }
    /\ pc' = "pcie"
    /\ UNCHANGED << cfg, i, rst, clock_domains, clkin, clkouts, false_paths, specials,
                    idelayctrl, hbm, bridges, pcie_phy, leds, prev, hwvars >>

\* if with_pcie: USPPCIEPHY(...); self.add_pcie(phy=self.pcie_phy, ndmas=1)
PCIe ==
    /\ pc = "pcie"
    /\ pcie_phy' = IF cfg.with_pcie
                      THEN [data_width |-> 128, bar0_size |-> 131072, ndmas |-> 1]
                      ELSE pcie_phy
    /\ pc' = "leds"
    /\ UNCHANGED << cfg, i, rst, clock_domains, clkin, clkouts, false_paths, specials,
                    idelayctrl, hbm, bridges, slaves, regions, leds, prev,
                    hwvars >>

\* if with_led: self.submodules.leds = LedChaser(pads, sys_clk_freq)
Leds ==
    /\ pc = "leds"
    /\ leds' = IF cfg.with_led
                  THEN [pads |-> "gpio_led", sys_clk_freq |-> cfg.sys_clk_freq]
                  ELSE leds
    /\ pc' = "done"
    /\ UNCHANGED << cfg, i, rst, clock_domains, clkin, clkouts, false_paths, specials,
                    idelayctrl, hbm, bridges, slaves, regions, pcie_phy, prev,
                    hwvars >>

\* BaseSoC constructed once more, with any arguments; the first result is kept
BaseSoCAgain ==
    /\ pc = "done"
    /\ ~prev.built
    /\ prev' = [built |-> TRUE, cfg |-> cfg, regions |-> regions]
    /\ \E c \in Configs :
          /\ cfg' = c
          /\ pc' = "SoCCore"
          /\ i' = 0
          /\ rst' = FALSE
          /\ clock_domains' = {}
          /\ clkin' = NoClkin
          /\ clkouts' = {}
          /\ false_paths' = {}
          /\ specials' = {}
          /\ idelayctrl' = NoIdelayCtrl
          /\ hbm' = FALSE
          /\ bridges' = {}
          /\ slaves' = {}
          /\ regions' = {}
          /\ pcie_phy' = NoPcie
          /\ leds' = NoLeds
          /\ resetsync' = [d \in {} |-> << >>]
          /\ edges' = [d \in {} |-> 0]
          /\ assert_from' = [d \in {} |-> "none"]

Compose ==
    \/ SoCCoreInit
    \/ CRG_ClockDomains
    \/ CRG_PLL
    \/ CRG_FalsePaths
    \/ CRG_Buffers
    \/ CRG_IdelayCtrl
    \/ HBM_Core
    \/ HBM_Channel
    \/ FirmwareRam
    \/ PCIe
    \/ Leds

Next == Compose \/ BaseSoCAgain

Spec == Init /\ [][Next]_vars

-----------------------------------------------------------------------------
(* The reset synchronizers of the generated hardware, one per clock domain *)
(* whose PLL output was created with a reset.  The request is _CRG.rst:    *)
(* asserted, it presets every stage at once, whatever the clocks do;       *)
(* released, each edge of the domain's own clock shifts a 0 one stage      *)
(* further.  The last stage is the domain's reset.                         *)

\* variant of Shift: a single stage, released on the first edge
ShiftAllStages(s) == [k \in 1..SyncStages |-> FALSE]

\* one clock edge with the request released
Shift(s) == [k \in 1..SyncStages |-> IF k = 1 THEN FALSE ELSE s[k - 1]]

\* variant of PresetAll: the request reaches the first stage only
PresetFirstStage(s) == [s EXCEPT ![1] = TRUE]

\* the asynchronous preset of all stages
PresetAll(s) == Preset

\* the domain's reset line
DomainRst(d) == resetsync[d][SyncStages]

DomainState(d) ==
    IF ~DomainRst(d) THEN "DEASSERTED"
    ELSE IF \A k \in 1..SyncStages : resetsync[d][k] THEN "ASSERTED"
    ELSE "SYNCHRONIZING"

AssertRequest ==
    /\ pc = "done"
    /\ ~rst
    /\ rst' = TRUE
    /\ resetsync' = [d \in DOMAIN resetsync |-> PresetAll(resetsync[d])]
    /\ edges' = [d \in DOMAIN edges |-> 0]
    /\ assert_from' = [d \in DOMAIN resetsync |-> DomainState(d)]
    /\ UNCHANGED << cfg, pc, i, socvars, prev >>

ReleaseRequest ==
    /\ pc = "done"
    /\ rst
    /\ rst' = FALSE
    /\ edges' = [d \in DOMAIN edges |-> 0]
    /\ UNCHANGED << cfg, pc, i, socvars, prev, resetsync, assert_from >>

ClockEdge(d) ==
    /\ pc = "done"
    /\ resetsync' = [resetsync EXCEPT ![d] = IF rst THEN PresetAll(@) ELSE Shift(@)]
    /\ edges' = [edges EXCEPT ![d] = IF rst THEN 0
                                     ELSE IF @ < MaxEdges THEN @ + 1 ELSE @]
    /\ UNCHANGED << cfg, pc, i, rst, socvars, prev, assert_from >>

Hardware ==
    \/ AssertRequest
    \/ ReleaseRequest
    \/ \E d \in DOMAIN resetsync : ClockEdge(d)

NextReset == Compose \/ Hardware

SpecReset == Init /\ [][NextReset]_vars

-----------------------------------------------------------------------------
(* Claims checked under SpecReset.                                         *)

-----------------------------------------------------------------------------
(* Derived views of a composition.                                         *)

\* [origin, origin+size) of a and of b do not meet (sizes are positive)
Disjoint(a, b) == (b.origin - a.origin >= a.size) \/ (a.origin - b.origin >= b.size)

RECURSIVE IsPowerOfTwo(_)
IsPowerOfTwo(n) ==
    IF n <= 0 THEN FALSE
    ELSE IF n = 1 THEN TRUE
    ELSE (n % 2 = 0) /\ IsPowerOfTwo(n \div 2)

HbmRegionsOf(rs) == { r \in rs : r.name \in HbmNames }

OtherRegionsOf(rs) == { r \in rs : r.name \notin HbmNames }

\* the frequency the PLL is asked for on clock domain cd
RequestedFreq(cd) == (CHOOSE o \in clkouts : o.cd = cd).freq

\* the clock of domain cd: the output O of a buffer runs at its input I divided by
\* the buffer's divider; any other domain runs at the PLL output requested for it
DomainFreq(cd) ==
    IF \E b \in specials : b.O = cd
      THEN LET b == CHOOSE x \in specials : x.O = cd
           IN  RequestedFreq(b.I) \div b.divide
      ELSE RequestedFreq(cd)

\* the reset of domain d is driven by a synchronizer of the PLL, or d is the
\* system domain handed to the IDELAYCTRL helper, which drives its reset
ResetDriven(d) == d \in DOMAIN resetsync \/ d = idelayctrl.cd_sys

-----------------------------------------------------------------------------
(* Claims checked under Spec.                                              *)

\* C1: in every configuration, any two distinct regions registered by the
\* composition (hbm0..hbm3 when HBM is enabled, firmware_ram) have disjoint
\* ranges [origin, origin+size).
C1_RegionsDisjoint ==
    \A a \in regions : \A b \in regions : a.name # b.name => Disjoint(a, b)

C1_Witness ==
    /\ pc = "done"
    /\ cfg.with_hbm
    /\ { r.name : r \in regions } = HbmNames \cup { "firmware_ram" }
    /\ Cardinality(regions) = 5

\* C2: two completed compositions that differ only in with_led / with_pcie
\* have identical HBM regions (names, origins, sizes); two that differ only
\* in with_hbm have identical non-HBM regions (firmware_ram).
C2_FeatureIndependence ==
    (pc = "done" /\ prev.built) =>
        /\ ( /\ prev.cfg.sys_clk_freq = cfg.sys_clk_freq
             /\ prev.cfg.ddram_channel = cfg.ddram_channel
             /\ prev.cfg.with_hbm = cfg.with_hbm )
             => HbmRegionsOf(prev.regions) = HbmRegionsOf(regions)
        /\ ( /\ prev.cfg.sys_clk_freq = cfg.sys_clk_freq
             /\ prev.cfg.ddram_channel = cfg.ddram_channel
             /\ prev.cfg.with_pcie = cfg.with_pcie
             /\ prev.cfg.with_led = cfg.with_led )
             => OtherRegionsOf(prev.regions) = OtherRegionsOf(regions)

C2_Witness ==
    /\ pc = "done"
    /\ prev.built
    /\ prev.cfg.sys_clk_freq = cfg.sys_clk_freq
    /\ prev.cfg.ddram_channel = cfg.ddram_channel
    /\ prev.cfg.with_hbm /\ cfg.with_hbm
    /\ prev.cfg.with_pcie # cfg.with_pcie
    /\ prev.cfg.with_led # cfg.with_led
    /\ Cardinality(HbmRegionsOf(regions)) = 4

\* the four regions of example scenario 1
C3_Expected ==
    { [name |-> "hbm0", origin |-> 1073741824, size |-> 268435456],
      [name |-> "hbm1", origin |-> 1342177280, size |-> 268435456],
      [name |-> "hbm2", origin |-> 1610612736, size |-> 268435456],
      [name |-> "hbm3", origin |-> 1879048192, size |-> 268435456] }

\* C3 as stated: with HBM enabled and PCIe and LED disabled, the composition
\* registers exactly 4 regions: those at 0x40000000, 0x50000000, 0x60000000,
\* 0x70000000, each of size 0x10000000.
C3_ExactlyFourRegions ==
    (pc = "done" /\ cfg.with_hbm /\ ~cfg.with_pcie /\ ~cfg.with_led) =>
        regions = C3_Expected

\* C3 as amended: in that configuration the HBM regions are exactly those
\* four, and the composition registers one region more, firmware_ram at
\* 0x20000000 of size 0x8000: five regions in all.
C3_FourHbmRegionsAndFirmwareRam ==
    (pc = "done" /\ cfg.with_hbm /\ ~cfg.with_pcie /\ ~cfg.with_led) =>
        /\ HbmRegionsOf(regions) = C3_Expected
        /\ regions \ C3_Expected =
               { [name |-> "firmware_ram", origin |-> 536870912, size |-> 32768] }
        /\ Cardinality(regions) = 5

C3_Witness ==
    /\ pc = "done"
    /\ cfg.with_hbm /\ ~cfg.with_pcie /\ ~cfg.with_led
    /\ i = 4
    /\ Cardinality(bridges) = 4

\* C5 as stated: every clock domain that is not reset_less (cd_sys,
\* cd_idelay, cd_hbm_ref, cd_apb) has its reset driven through a reset
\* synchronizer; only the reset_less domains (cd_sys4x, cd_pll4x) have none.
C5_EveryResetDomainSequenced ==
    (pc = "done") =>
        /\ { d.name : d \in { x \in clock_domains : ~x.reset_less } }
               = { "cd_sys", "cd_idelay", "cd_hbm_ref", "cd_apb" }
        /\ \A d \in clock_domains : ResetDriven(d.name) <=> ~d.reset_less

\* C8: for every sys_clk_freq f the PLL is asked for cd_pll4x at exactly 4*f;
\* cd_sys is cd_pll4x through a divide-by-4 buffer and cd_sys4x is cd_pll4x
\* undivided, so cd_sys runs at f and cd_sys4x at 4 times cd_sys; cd_idelay
\* (600 MHz), cd_hbm_ref and cd_apb (100 MHz) do not depend on f.
C8_ClockPlan ==
    (specials # {}) =>
        /\ RequestedFreq("cd_pll4x") = 4 * cfg.sys_clk_freq
        /\ \E b \in specials : b.O = "cd_sys" /\ b.I = "cd_pll4x" /\ b.divide = 4
        /\ \E b \in specials : b.O = "cd_sys4x" /\ b.I = "cd_pll4x" /\ b.divide = 1
        /\ \A a \in specials : \A b \in specials : a.O = b.O => a = b
        /\ DomainFreq("cd_sys") = cfg.sys_clk_freq
        /\ DomainFreq("cd_sys4x") = 4 * DomainFreq("cd_sys")
        /\ DomainFreq("cd_idelay") = 600000000
        /\ DomainFreq("cd_hbm_ref") = 100000000
        /\ DomainFreq("cd_apb") = 100000000

C8_Witness ==
    /\ pc = "done"
    /\ cfg.sys_clk_freq # 150000000
    /\ Cardinality(specials) = 2
    /\ Cardinality(clkouts) = 4

\* C10: every region registered by the composition has a size that is a
\* power of two and an origin that is a multiple of its size.
C10_PowerOfTwoAligned ==
    \A r \in regions : IsPowerOfTwo(r.size) /\ r.origin % r.size = 0

C10_Witness ==
    /\ pc = "done"
    /\ \E r \in regions : r.name = "firmware_ram" /\ r.size = 32768
    /\ \E r \in regions : r.name = "hbm3" /\ r.origin = 1879048192

====
